---- MODULE Spec2Model ----
(***************************************************************************)
(* SupabaseService (src/src/supabase-service.ts): a construct that         *)
(* declares a Fargate service with optional load balancer and optional     *)
(* App Mesh sidecars, plus three methods that wire one service to a        *)
(* backend (security-group rule, mesh backend reference).                  *)
(*                                                                         *)
(* An optional value (a TypeScript `T | undefined`) is a sequence of       *)
(* length at most one: None is undefined, Some(x) is the value x.          *)
(* Names (construct ids, DNS names) are sequences of one-character         *)
(* strings, so that toLowerCase and the template strings are computed.     *)
(***************************************************************************)
EXTENDS Integers, Sequences, FiniteSets, TLC

VARIABLES services, database, mail, sgRules, backends, lastOp

vars == <<services, database, mail, sgRules, backends, lastOp>>

None == <<>>
Some(x) == <<x>>
IsDefined(o) == o # None

(***************************************************************************)
(* Bounds of the model.                                                    *)
(***************************************************************************)
MaxMappings == 2
MaxBackends == 2

(***************************************************************************)
(* Program constants.                                                      *)
(***************************************************************************)
ListenerHttpPort == 80
GracePeriodSeconds == 10
ProxyIngressPort == 15000
ProxyEgressPort == 15001
IgnoredUID == 1337
IgnoredGID == 1338
XRayPort == 2000

(***************************************************************************)
(* Strings.                                                                *)
(***************************************************************************)
UpperCase == <<"A","B","C","D","E","F","G","H","I","J","K","L","M",
               "N","O","P","Q","R","S","T","U","V","W","X","Y","Z">>
LowerCase == <<"a","b","c","d","e","f","g","h","i","j","k","l","m",
               "n","o","p","q","r","s","t","u","v","w","x","y","z">>

LowerChar(c) ==
    IF \E i \in DOMAIN UpperCase : UpperCase[i] = c
    THEN LowerCase[CHOOSE i \in DOMAIN UpperCase : UpperCase[i] = c]
    ELSE c

\* String.prototype.toLowerCase
toLowerCase(s) == [i \in DOMAIN s |-> LowerChar(s[i])]

DigitChars == <<"0","1","2","3","4","5","6","7","8","9">>

RECURSIVE NumberToString(_)
\* Number.prototype.toString for a non-negative integer (ec2.Port.toString
\* of a literal TCP port)
NumberToString(n) ==
    IF n < 10 THEN <<DigitChars[n + 1]>>
    ELSE NumberToString(n \div 10) \o <<DigitChars[(n % 10) + 1]>>

\* the template string `${a}.${b}`
Dotted(a, b) == a \o <<".">> \o b

(***************************************************************************)
(* The environment of the constructs: ids, cluster namespace, the          *)
(* inputs of the constructor.                                              *)
(***************************************************************************)
Ids == { <<"A","u","t","h">>, <<"r","e","s","t">> }

NamespaceName == <<"s","b">>
VpcCidrBlock == <<"v","p","c">>

DbName == <<"d","b">>
MailName == <<"m","a","i","l">>

Ports == {3000, 9999}

RECURSIVE SeqsUpTo(_, _)
SeqsUpTo(S, n) ==
    IF n = 0 THEN { <<>> }
    ELSE LET shorter == SeqsUpTo(S, n - 1)
         IN  shorter \cup { Append(q, x) : q \in shorter, x \in S }

PortMapping(p) == [containerPort |-> p]

\* props.containerDefinition: portMappings is optional
ContainerDefinitions ==
    { [portMappings |-> pm, essential |-> e] :
        pm \in {None} \cup { Some(q) : q \in SeqsUpTo({PortMapping(p) : p \in Ports}, MaxMappings) },
        e \in {None, Some(FALSE)} }

\* SupabaseServiceProps, the fields the constructor branches on
AllProps ==
    { [containerDefinition |-> cd, withLoadBalancer |-> lb, mesh |-> m] :
        cd \in ContainerDefinitions,
        lb \in {None, Some("Network"), Some("Application")},
        m \in {None, Some([meshName |-> <<"m">>])} }

(***************************************************************************)
(* Security-group rules: connections.allowTo / allowFrom register a rule   *)
(* between two peers on a TCP port.  CDK keys a rule by its peers and      *)
(* port, so registering the same rule twice leaves one rule.               *)
(***************************************************************************)
ServicePeer(id) == [kind |-> "service", name |-> id]
CidrPeer(cidr) == [kind |-> "ipv4", name |-> cidr]
DatabasePeer == [kind |-> "database", name |-> DbName]
MailPeer == [kind |-> "mail", name |-> MailName]

Rule(from, to, port) == [from |-> from, to |-> to, port |-> port]

Declare(type, cid) == [type |-> type, id |-> cid]

(***************************************************************************)
(* The constructor, lines 29-202.                                          *)
(***************************************************************************)
\* line 37: containerDefinition.portMappings![0].containerPort; None when
\* the read throws (portMappings undefined, or no element 0)
ListenerPortOf(containerDefinition) ==
    IF IsDefined(containerDefinition.portMappings)
       /\ Len(containerDefinition.portMappings[1]) > 0
    THEN Some(containerDefinition.portMappings[1][1].containerPort)
    ELSE None

\* the first port mapping instead of the last
HealthCheckPortOf_First(containerDefinition) ==
    containerDefinition.portMappings[1][1].containerPort

\* line 92: containerDefinition.portMappings!.slice(-1)[0].containerPort
HealthCheckPortOf(containerDefinition) ==
    LET pm == containerDefinition.portMappings[1]
    IN  pm[Len(pm)].containerPort

AppName == <<"a","p","p">>
EnvoyName == <<"e","n","v","o","y">>
XRayName == <<"x","r","a","y","-","d","a","e","m","o","n">>

\* the proxy configuration whether or not a mesh is given
ProxyConfigurationOf_Always(mesh, listenerPort) ==
    Some([containerName |-> EnvoyName,
          ignoredUID |-> IgnoredUID,
          ignoredGID |-> IgnoredGID,
          appPorts |-> <<listenerPort>>,
          proxyIngressPort |-> ProxyIngressPort,
          proxyEgressPort |-> ProxyEgressPort])

\* lines 39-50
ProxyConfigurationOf(mesh, listenerPort) ==
    IF ~IsDefined(mesh) THEN None
    ELSE Some([containerName |-> EnvoyName,
               ignoredUID |-> IgnoredUID,
               ignoredGID |-> IgnoredGID,
               appPorts |-> <<listenerPort>>,
               proxyIngressPort |-> ProxyIngressPort,
               proxyEgressPort |-> ProxyEgressPort])

\* essential: true written before the spread, so that the caller's
\* essential wins
AppContainerOf_SpreadLast(containerDefinition, mesh) ==
    [name |-> AppName,
     essential |-> IF IsDefined(containerDefinition.essential)
                   THEN containerDefinition.essential[1]
                   ELSE TRUE,
     portMappings |-> containerDefinition.portMappings[1],
     dependsOn |-> IF IsDefined(mesh)
                   THEN <<[container |-> EnvoyName, condition |-> "HEALTHY"]>>
                   ELSE <<>>]

\* lines 66-71 and 175-178: the spread of containerDefinition, then
\* essential: true; the dependency on envoy is added in the mesh branch
AppContainerOf(containerDefinition, mesh) ==
    [name |-> AppName,
     essential |-> TRUE,
     portMappings |-> containerDefinition.portMappings[1],
     dependsOn |-> IF IsDefined(mesh)
                   THEN <<[container |-> EnvoyName, condition |-> "HEALTHY"]>>
                   ELSE <<>>]

\* lines 152-173
EnvoyContainer ==
    [name |-> EnvoyName, essential |-> TRUE, portMappings |-> <<>>, dependsOn |-> <<>>]

\* lines 180-198
XRayContainer ==
    [name |-> XRayName, essential |-> TRUE,
     portMappings |-> <<PortMapping(XRayPort)>>, dependsOn |-> <<>>]

\* lines 52-71, 149-198: the task definition with its containers
TaskDefinitionOf(containerDefinition, mesh, listenerPort) ==
    [proxyConfiguration |-> ProxyConfigurationOf(mesh, listenerPort),
     containers |-> <<AppContainerOf(containerDefinition, mesh)>>
                    \o (IF IsDefined(mesh) THEN <<EnvoyContainer, XRayContainer>> ELSE <<>>),
     managedPolicies |-> IF IsDefined(mesh)
                         THEN <<"AWSAppMeshEnvoyAccess", "AWSXRayDaemonWriteAccess">>
                         ELSE <<>>]

\* the grace period set unconditionally
FargateServiceOf_AlwaysGrace(serviceName, withLoadBalancer) ==
    [cloudMapName |-> serviceName,
     namespaceName |-> NamespaceName,
     healthCheckGracePeriod |-> Some(GracePeriodSeconds)]

\* lines 73-86
FargateServiceOf(serviceName, withLoadBalancer) ==
    [cloudMapName |-> serviceName,
     namespaceName |-> NamespaceName,
     healthCheckGracePeriod |-> IF ~IsDefined(withLoadBalancer) THEN None
                                ELSE Some(GracePeriodSeconds)]

\* lines 95-107 and 115-126
TargetGroupOf(containerDefinition, withLoadBalancer) ==
    IF withLoadBalancer = Some("Network")
    THEN Some([type |-> "NetworkTargetGroup", port |-> ListenerHttpPort,
               targets |-> <<[containerName |-> AppName]>>,
               healthCheckPort |-> Some(NumberToString(HealthCheckPortOf(containerDefinition)))])
    ELSE IF withLoadBalancer = Some("Application")
    THEN Some([type |-> "ApplicationTargetGroup", port |-> ListenerHttpPort,
               targets |-> <<[containerName |-> AppName]>>,
               healthCheckPort |-> None])
    ELSE None

\* lines 108-113 and 127-132
LoadBalancerOf(containerDefinition, withLoadBalancer) ==
    LET tg == TargetGroupOf(containerDefinition, withLoadBalancer)
    IN  IF withLoadBalancer = Some("Network")
        THEN Some([type |-> "NetworkLoadBalancer", internetFacing |-> TRUE,
                   listeners |-> <<[port |-> ListenerHttpPort, defaultTargetGroups |-> <<tg[1]>>]>>])
        ELSE IF withLoadBalancer = Some("Application")
        THEN Some([type |-> "ApplicationLoadBalancer", internetFacing |-> TRUE,
                   listeners |-> <<[port |-> ListenerHttpPort, defaultTargetGroups |-> <<tg[1]>>]>>])
        ELSE None

\* lines 136-142
VirtualNodeOf(id, mesh, listenerPort) ==
    IF ~IsDefined(mesh) THEN None
    ELSE Some([virtualNodeName |-> id, listeners |-> <<[protocol |-> "http", port |-> listenerPort]>>])

\* lines 144-147
VirtualServiceOf(id, mesh) ==
    IF ~IsDefined(mesh) THEN None
    ELSE Some([virtualServiceName |-> Dotted(toLowerCase(id), NamespaceName),
               virtualServiceProvider |-> id])

\* the child constructs, in the order the constructor declares them
DeclaredBy(withLoadBalancer, mesh) ==
    <<Declare("FargateTaskDefinition", "TaskDefinition"),
      Declare("LogGroup", "Logs"),
      Declare("FargateService", "Svc")>>
    \o (IF withLoadBalancer = Some("Network")
        THEN <<Declare("NetworkTargetGroup", "TargetGroup"),
               Declare("NetworkLoadBalancer", "LoadBalancer"),
               Declare("NetworkListener", "Listener")>>
        ELSE IF withLoadBalancer = Some("Application")
        THEN <<Declare("ApplicationTargetGroup", "TargetGroup"),
               Declare("ApplicationLoadBalancer", "LoadBalancer"),
               Declare("ApplicationListener", "Listener")>>
        ELSE <<>>)
    \o (IF IsDefined(mesh)
        THEN <<Declare("VirtualNode", "VirtualNode"),
               Declare("VirtualService", "VirtualService")>>
        ELSE <<>>)

\* line 93: the ingress rule for the NLB health check
HealthCheckRules(id, props) ==
    IF props.withLoadBalancer = Some("Network")
    THEN { Rule(CidrPeer(VpcCidrBlock), ServicePeer(id), HealthCheckPortOf(props.containerDefinition)) }
    ELSE {}

\* what the constructor has declared when line 37 throws: line 37 comes
\* before the first child construct (line 52)
Thrown_AfterTaskDefinition(props) ==
    [state |-> "threw", declared |-> <<Declare("FargateTaskDefinition", "TaskDefinition")>>]

Thrown(props) == [state |-> "threw", declared |-> <<>>]

\* new SupabaseService(scope, id, props): the object, or the state the
\* scope is left in when line 37 throws
NewSupabaseService(id, props) ==
    LET containerDefinition == props.containerDefinition
        withLoadBalancer == props.withLoadBalancer
        mesh == props.mesh
        serviceName == toLowerCase(id)
        port == ListenerPortOf(containerDefinition)
    IN  IF ~IsDefined(port)
        THEN Thrown(props)
        ELSE LET service == FargateServiceOf(serviceName, withLoadBalancer)
             IN  [state |-> "built",
                  id |-> id,
                  listenerPort |-> port[1],
                  internalDnsName |-> Dotted(service.cloudMapName, service.namespaceName),
                  taskDefinition |-> TaskDefinitionOf(containerDefinition, mesh, port[1]),
                  service |-> service,
                  targetGroup |-> TargetGroupOf(containerDefinition, withLoadBalancer),
                  loadBalancer |-> LoadBalancerOf(containerDefinition, withLoadBalancer),
                  virtualNode |-> VirtualNodeOf(id, mesh, port[1]),
                  virtualService |-> VirtualServiceOf(id, mesh),
                  declared |-> DeclaredBy(withLoadBalancer, mesh)]

(***************************************************************************)
(* The backends that are not SupabaseService objects.                      *)
(***************************************************************************)
\* the default port of the database's connections
DefaultPorts == {5432}

\* SupabaseDatabase, as addDatabaseBackend reads it: an optional
\* virtualService, and connections with a default port
Databases ==
    { [virtualService |-> vs, defaultPort |-> p] :
        vs \in {None, Some([virtualServiceName |-> Dotted(DbName, NamespaceName),
                            virtualServiceProvider |-> DbName])},
        p \in DefaultPorts }

\* SupabaseMailBase, as addExternalBackend reads it: an optional
\* virtualService
Mails ==
    { [virtualService |-> vs] :
        vs \in {None, Some([virtualServiceName |-> Dotted(MailName, NamespaceName),
                            virtualServiceProvider |-> MailName])} }

(***************************************************************************)
(* The wiring methods, lines 203-221.  A wiring state w holds what the     *)
(* methods write: the security-group rules, each virtual node's backend    *)
(* list, the SDK calls made so far by the running method, and whether it   *)
(* has thrown.                                                             *)
(***************************************************************************)
Wiring == [sgRules |-> sgRules, backends |-> backends, sdk |-> <<>>, threw |-> FALSE]

\* connections.allowTo(other, port)
allowTo(w, from, to, port) ==
    [w EXCEPT !.sgRules = @ \cup {Rule(from, to, port)},
              !.sdk = Append(@, [call |-> "allowTo", from |-> from, to |-> to, port |-> port])]

\* connections.allowToDefaultPort(other)
allowToDefaultPort(w, from, to, other) ==
    allowTo(w, from, to, other.defaultPort)

MeshCall(a, vs) == [call |-> "virtualNode.addBackend", node |-> a, backend |-> vs]

\* without the optional chaining: a TypeError when virtualNode is undefined
virtualNodeAddBackend_NoOptionalChaining(w, a, vs) ==
    IF IsDefined(services[a].virtualNode)
    THEN [w EXCEPT !.backends[a] = Append(@, vs), !.sdk = Append(@, MeshCall(a, vs))]
    ELSE [w EXCEPT !.threw = TRUE]

\* one backend list shared by every virtual node
virtualNodeAddBackend_SharedList(w, a, vs) ==
    IF IsDefined(services[a].virtualNode)
    THEN [w EXCEPT !.backends = [id \in Ids |-> Append(w.backends[id], vs)],
                   !.sdk = Append(@, MeshCall(a, vs))]
    ELSE w

\* this.virtualNode?.addBackend(appmesh.Backend.virtualService(vs)):
\* VirtualNode.addBackend pushes onto the node's backend list
virtualNodeAddBackend(w, a, vs) ==
    IF IsDefined(services[a].virtualNode)
    THEN [w EXCEPT !.backends[a] = Append(@, vs),
                   !.sdk = Append(@, MeshCall(a, vs))]
    ELSE w

\* the rule moved inside the `if`
addBackend_RuleInsideIf(w, a, b) ==
    IF IsDefined(services[b].virtualService)
    THEN virtualNodeAddBackend(
             allowTo(w, ServicePeer(a), ServicePeer(b), services[b].listenerPort),
             a, services[b].virtualService[1])
    ELSE w

\* wiring both directions at once
addBackend_Symmetric(w, a, b) ==
    LET w1 == allowTo(w, ServicePeer(a), ServicePeer(b), services[b].listenerPort)
        w2 == IF IsDefined(services[b].virtualService)
              THEN virtualNodeAddBackend(w1, a, services[b].virtualService[1])
              ELSE w1
        w3 == allowTo(w2, ServicePeer(b), ServicePeer(a), services[a].listenerPort)
    IN  IF IsDefined(services[a].virtualService)
        THEN virtualNodeAddBackend(w3, b, services[a].virtualService[1])
        ELSE w3

\* lines 203-208
addBackend(w, a, b) ==
    LET w1 == allowTo(w, ServicePeer(a), ServicePeer(b), services[b].listenerPort)
    IN  IF IsDefined(services[b].virtualService)
        THEN virtualNodeAddBackend(w1, a, services[b].virtualService[1])
        ELSE w1

\* the mesh backend first, the rule after it
addDatabaseBackend_MeshFirst(w, a, backend) ==
    LET w1 == IF IsDefined(backend.virtualService)
              THEN virtualNodeAddBackend(w, a, backend.virtualService[1])
              ELSE w
    IN  allowToDefaultPort(w1, ServicePeer(a), DatabasePeer, backend)

\* lines 210-215
addDatabaseBackend(w, a, backend) ==
    LET w1 == allowToDefaultPort(w, ServicePeer(a), DatabasePeer, backend)
    IN  IF IsDefined(backend.virtualService)
        THEN virtualNodeAddBackend(w1, a, backend.virtualService[1])
        ELSE w1

\* lines 217-221
addExternalBackend(w, a, backend) ==
    IF IsDefined(backend.virtualService)
    THEN virtualNodeAddBackend(w, a, backend.virtualService[1])
    ELSE w

(***************************************************************************)
(* The state machine.  lastOp records the last call made on the program:   *)
(* its method, receiver and argument, and the SDK calls it made, in order. *)
(***************************************************************************)
Absent == [state |-> "absent"]

Built(id) == services[id].state = "built"

Op(method, caller, backend, props, sdk, threw) ==
    [method |-> method, caller |-> caller, backend |-> backend,
     props |-> props, sdk |-> sdk, threw |-> threw]

Init ==
    /\ services = [id \in Ids |-> Absent]
    /\ database \in Databases
    /\ mail \in Mails
    /\ sgRules = {}
    /\ backends = [id \in Ids |-> <<>>]
    /\ lastOp = Op("none", None, None, None, <<>>, FALSE)

\* new SupabaseService(scope, id, props); an id is used once in a scope
Constructor(id, props) ==
    /\ services[id] = Absent
    /\ LET obj == NewSupabaseService(id, props)
       IN  /\ services' = [services EXCEPT ![id] = obj]
           /\ sgRules' = IF obj.state = "built"
                         THEN sgRules \cup HealthCheckRules(id, props)
                         ELSE sgRules
           /\ lastOp' = Op("new", Some(id), None, Some(props), <<>>, obj.state = "threw")
    /\ UNCHANGED <<database, mail, backends>>

Commit(w, method, a, backend) ==
    /\ sgRules' = w.sgRules
    /\ backends' = w.backends
    /\ lastOp' = Op(method, Some(a), Some(backend), None, w.sdk, w.threw)
    /\ UNCHANGED <<services, database, mail>>

\* a.addBackend(b)
CallAddBackend(a, b) ==
    /\ Built(a) /\ Built(b)
    /\ Len(backends[a]) < MaxBackends
    /\ Commit(addBackend(Wiring, a, b), "addBackend", a, ServicePeer(b))

\* a.addDatabaseBackend(database)
CallAddDatabaseBackend(a) ==
    /\ Built(a)
    /\ Len(backends[a]) < MaxBackends
    /\ Commit(addDatabaseBackend(Wiring, a, database), "addDatabaseBackend", a, DatabasePeer)

\* a.addExternalBackend(mail)
CallAddExternalBackend(a) ==
    /\ Built(a)
    /\ Len(backends[a]) < MaxBackends
    /\ Commit(addExternalBackend(Wiring, a, mail), "addExternalBackend", a, MailPeer)

\* The services that get wired: the props that decide what the wiring
\* methods read (mesh, the first port mapping), with and without the
\* network load balancer whose health check reads the last port mapping.
WiredMappings == { <<PortMapping(3000)>>, <<PortMapping(9999), PortMapping(3000)>> }

WiredProps ==
    { p \in AllProps :
        /\ p.containerDefinition.essential = None
        /\ p.containerDefinition.portMappings \in { Some(pm) : pm \in WiredMappings }
        /\ p.withLoadBalancer \in {None, Some("Network")} }

Next ==
    \/ \E id \in Ids, props \in WiredProps : Constructor(id, props)
    \/ \E a \in Ids, b \in Ids : CallAddBackend(a, b)
    \/ \E a \in Ids : CallAddDatabaseBackend(a)
    \/ \E a \in Ids : CallAddExternalBackend(a)

Spec == Init /\ [][Next]_vars

\* Construction alone, over every combination of the props.
NextBuild == \E id \in Ids, props \in AllProps : Constructor(id, props)

SpecBuild == Init /\ [][NextBuild]_vars

(***************************************************************************)
(* Properties of the wiring methods.                                       *)
(***************************************************************************)
WiringMethods == {"addBackend", "addDatabaseBackend", "addExternalBackend"}

\* the virtualService field of the backend a wiring call was given
BackendVirtualService(peer) ==
    IF peer.kind = "service" THEN services[peer.name].virtualService
    ELSE IF peer.kind = "database" THEN database.virtualService
    ELSE mail.virtualService

\* the port a rule towards the backend is opened on
BackendPort(peer) ==
    IF peer.kind = "service" THEN services[peer.name].listenerPort
    ELSE database.defaultPort

RuleCalls(op) == { i \in DOMAIN op.sdk : op.sdk[i].call = "allowTo" }
MeshCalls(op) == { i \in DOMAIN op.sdk : op.sdk[i].call = "virtualNode.addBackend" }

\* the last call registered a rule from its receiver to its argument
RegisteredRule(op) ==
    /\ \E i \in RuleCalls(op) :
          /\ op.sdk[i].from = ServicePeer(op.caller[1])
          /\ op.sdk[i].to = op.backend[1]
    /\ \E r \in sgRules : r.from = ServicePeer(op.caller[1]) /\ r.to = op.backend[1]

\* C1 as stated: each of addBackend, addDatabaseBackend and
\* addExternalBackend registers a security-group rule from the calling
\* service to the backend on every call.
C1_EveryMethodRegistersRule ==
    lastOp.method \in WiringMethods => RegisteredRule(lastOp)

\* C1, amended: addBackend and addDatabaseBackend register a security-group
\* rule from the calling service to the backend on every call, whatever the
\* mesh configuration of caller and backend (addBackend on the backend's
\* listenerPort, addDatabaseBackend on its default port); addExternalBackend
\* registers no rule.
C1_ServiceAndDatabaseRegisterRule ==
    /\ lastOp.method \in {"addBackend", "addDatabaseBackend"} =>
          /\ RegisteredRule(lastOp)
          /\ Rule(ServicePeer(lastOp.caller[1]), lastOp.backend[1],
                  BackendPort(lastOp.backend[1])) \in sgRules
    /\ lastOp.method = "addExternalBackend" =>
          /\ RuleCalls(lastOp) = {}
          /\ ~ \E r \in sgRules : r.to = MailPeer

\* a rule registered by addBackend with neither side in a mesh
C1_Witness ==
    /\ lastOp.method = "addBackend"
    /\ ~IsDefined(services[lastOp.caller[1]].virtualNode)
    /\ ~IsDefined(BackendVirtualService(lastOp.backend[1]))
    /\ RegisteredRule(lastOp)

\* C2: a wiring call appends the backend's virtual service to the calling
\* service's virtual-node backend list if and only if the backend has a
\* virtual service and the caller has a virtual node; otherwise it makes no
\* mesh call and leaves every backend list as it was; it never throws.
C2_MeshBackendIff ==
    [][ lastOp'.method \in WiringMethods =>
          LET a == lastOp'.caller[1]
              vs == BackendVirtualService(lastOp'.backend[1])
          IN  /\ ~lastOp'.threw
              /\ IF IsDefined(vs) /\ IsDefined(services[a].virtualNode)
                 THEN /\ backends' = [backends EXCEPT ![a] = Append(@, vs[1])]
                      /\ \E i \in MeshCalls(lastOp') :
                            lastOp'.sdk[i].node = a /\ lastOp'.sdk[i].backend = vs[1]
                 ELSE /\ backends' = backends
                      /\ MeshCalls(lastOp') = {} ]_vars

\* a call whose backend has a virtual service but whose caller has no
\* virtual node: no mesh backend, no failure
C2_Witness ==
    /\ lastOp.method = "addDatabaseBackend"
    /\ IsDefined(database.virtualService)
    /\ ~IsDefined(services[lastOp.caller[1]].virtualNode)
    /\ ~lastOp.threw
    /\ backends[lastOp.caller[1]] = <<>>
    /\ \E other \in Ids : Len(backends[other]) > 0

\* C6: a wiring call changes no field of any service object and no backend
\* list but the calling service's; rules are only added.
C6_WiringFrame ==
    [][ lastOp'.method \in WiringMethods =>
          /\ services' = services
          /\ database' = database
          /\ mail' = mail
          /\ sgRules \subseteq sgRules'
          /\ \A s \in Ids \ {lastOp'.caller[1]} : backends'[s] = backends[s] ]_vars

\* a.addBackend(b) between two meshed services has extended a's list and
\* left b's empty
C6_Witness ==
    /\ lastOp.method = "addBackend"
    /\ lastOp.backend[1].name # lastOp.caller[1]
    /\ IsDefined(services[lastOp.backend[1].name].virtualNode)
    /\ Len(backends[lastOp.caller[1]]) > 0
    /\ backends[lastOp.backend[1].name] = <<>>

\* C8: every virtual service of a SupabaseService or of the database in a
\* service's backend list is covered by a rule from that service to the
\* backend, on the backend's listenerPort or default port; and in a call of
\* addBackend or addDatabaseBackend the rule is the first SDK call, made
\* before any mesh call.
C8_MeshBackendHasRule ==
    /\ \A a \in Ids : \A i \in DOMAIN backends[a] :
          /\ \A b \in Ids :
                (Built(b) /\ services[b].virtualService = Some(backends[a][i]))
                => Rule(ServicePeer(a), ServicePeer(b), services[b].listenerPort) \in sgRules
          /\ database.virtualService = Some(backends[a][i])
                => Rule(ServicePeer(a), DatabasePeer, database.defaultPort) \in sgRules
    /\ lastOp.method \in {"addBackend", "addDatabaseBackend"} =>
          /\ 1 \in RuleCalls(lastOp)
          /\ \A j \in MeshCalls(lastOp) : \E i \in RuleCalls(lastOp) : i < j

\* the database's virtual service added to a node after the rule
C8_Witness ==
    /\ lastOp.method = "addDatabaseBackend"
    /\ Len(lastOp.sdk) = 2
    /\ lastOp.sdk[2].backend = database.virtualService[1]
    /\ Rule(ServicePeer(lastOp.caller[1]), DatabasePeer, 5432) \in sgRules

\* what two calls leave behind, apart from the record of the SDK calls
Outcome(w) == <<w.sgRules, w.backends, w.threw>>

\* C10: a.addBackend(b) with a # b adds no rule but the one from a to b and
\* changes no backend list but a's, which never receives a's own virtual
\* service; and a.addBackend(b) followed by b.addBackend(a) leaves the same
\* rules and backend lists as the two calls in the other order.
C10_DirectionalAndCommuting ==
    /\ [][ (lastOp'.method = "addBackend" /\ lastOp'.backend[1].name # lastOp'.caller[1]) =>
             LET a == lastOp'.caller[1]
                 b == lastOp'.backend[1].name
             IN  /\ sgRules' \ sgRules \subseteq
                       { Rule(ServicePeer(a), ServicePeer(b), services[b].listenerPort) }
                 /\ backends'[b] = backends[b]
                 /\ \A i \in DOMAIN backends'[a] \ DOMAIN backends[a] :
                       Some(backends'[a][i]) = services[b].virtualService ]_vars
    /\ [](\A a \in Ids, b \in Ids :
             (a # b /\ Built(a) /\ Built(b)) =>
                Outcome(addBackend(addBackend(Wiring, a, b), b, a))
                = Outcome(addBackend(addBackend(Wiring, b, a), a, b)))

\* one direction wired between two meshed services, the other not
C10_Witness ==
    /\ lastOp.method = "addBackend"
    /\ LET a == lastOp.caller[1]
           b == lastOp.backend[1].name
       IN  /\ a # b
           /\ IsDefined(services[a].virtualNode)
           /\ IsDefined(services[b].virtualNode)
           /\ backends[a] = <<services[b].virtualService[1]>>
           /\ backends[b] = <<>>
           /\ \E r \in sgRules : r.from = ServicePeer(a) /\ r.to = ServicePeer(b)
           /\ ~ \E r \in sgRules : r.from = ServicePeer(b) /\ r.to = ServicePeer(a)

(***************************************************************************)
(* Properties of the constructor.                                          *)
(***************************************************************************)
\* the last call was a constructor call that returned
Constructed == lastOp.method = "new" /\ ~lastOp.threw

CountDeclared(s, type) ==
    Cardinality({ i \in DOMAIN s.declared : s.declared[i].type = type })

ContainerNames(s) ==
    [i \in DOMAIN s.taskDefinition.containers |-> s.taskDefinition.containers[i].name]

MeshTypes == {"VirtualNode", "VirtualService"}
BalancerTypes == {"NetworkTargetGroup", "NetworkLoadBalancer", "NetworkListener",
                  "ApplicationTargetGroup", "ApplicationLoadBalancer", "ApplicationListener"}

DeclaredTypes(s) == { s.declared[i].type : i \in DOMAIN s.declared }

\* C3: a service constructed with props.mesh has a virtual node, a virtual
\* service provided by that node, a proxy configuration naming container
\* 'envoy', the containers 'envoy' and 'xray-daemon' after 'app', and 'app'
\* depending on 'envoy' being HEALTHY; one constructed without props.mesh
\* has none of these.
C3_MeshAllOrNothing ==
    Constructed =>
        LET s == services[lastOp.caller[1]]
            app == s.taskDefinition.containers[1]
        IN  IF IsDefined(lastOp.props[1].mesh)
            THEN /\ IsDefined(s.virtualNode)
                 /\ IsDefined(s.virtualService)
                 /\ s.virtualService[1].virtualServiceProvider = s.virtualNode[1].virtualNodeName
                 /\ IsDefined(s.taskDefinition.proxyConfiguration)
                 /\ s.taskDefinition.proxyConfiguration[1].containerName = <<"e","n","v","o","y">>
                 /\ ContainerNames(s) = <<AppName, <<"e","n","v","o","y">>,
                                         <<"x","r","a","y","-","d","a","e","m","o","n">> >>
                 /\ app.dependsOn = <<[container |-> <<"e","n","v","o","y">>, condition |-> "HEALTHY"]>>
                 /\ MeshTypes \subseteq DeclaredTypes(s)
            ELSE /\ s.virtualNode = None
                 /\ s.virtualService = None
                 /\ s.taskDefinition.proxyConfiguration = None
                 /\ ContainerNames(s) = << <<"a","p","p">> >>
                 /\ app.dependsOn = <<>>
                 /\ MeshTypes \cap DeclaredTypes(s) = {}

\* a service constructed with a mesh
C3_Witness ==
    /\ Constructed
    /\ IsDefined(lastOp.props[1].mesh)
    /\ Len(services[lastOp.caller[1]].taskDefinition.containers) = 3

\* one listener on port 80 forwarding to one target group on container 'app'
OneListener(lb, tgType) ==
    /\ lb.internetFacing
    /\ Len(lb.listeners) = 1
    /\ lb.listeners[1].port = 80
    /\ Len(lb.listeners[1].defaultTargetGroups) = 1
    /\ lb.listeners[1].defaultTargetGroups[1].type = tgType
    /\ lb.listeners[1].defaultTargetGroups[1].targets = <<[containerName |-> <<"a","p","p">>]>>

\* C4: withLoadBalancer 'Network' gives exactly one internet-facing network
\* load balancer, 'Application' exactly one internet-facing application load
\* balancer, each with one listener on port 80 forwarding to one target
\* group on container 'app'; without withLoadBalancer the loadBalancer field
\* is undefined and no target group, listener or load balancer is declared.
\* The health-check grace period is 10 s exactly when withLoadBalancer is
\* given.
C4_LoadBalancerFollowsFlag ==
    Constructed =>
        LET s == services[lastOp.caller[1]]
            flag == lastOp.props[1].withLoadBalancer
        IN  /\ flag = Some("Network") =>
                  /\ IsDefined(s.loadBalancer)
                  /\ s.loadBalancer[1].type = "NetworkLoadBalancer"
                  /\ OneListener(s.loadBalancer[1], "NetworkTargetGroup")
                  /\ CountDeclared(s, "NetworkLoadBalancer") = 1
                  /\ CountDeclared(s, "NetworkTargetGroup") = 1
                  /\ CountDeclared(s, "NetworkListener") = 1
                  /\ CountDeclared(s, "ApplicationLoadBalancer") = 0
            /\ flag = Some("Application") =>
                  /\ IsDefined(s.loadBalancer)
                  /\ s.loadBalancer[1].type = "ApplicationLoadBalancer"
                  /\ OneListener(s.loadBalancer[1], "ApplicationTargetGroup")
                  /\ CountDeclared(s, "ApplicationLoadBalancer") = 1
                  /\ CountDeclared(s, "ApplicationTargetGroup") = 1
                  /\ CountDeclared(s, "ApplicationListener") = 1
                  /\ CountDeclared(s, "NetworkLoadBalancer") = 0
            /\ flag = None =>
                  /\ s.loadBalancer = None
                  /\ s.targetGroup = None
                  /\ BalancerTypes \cap DeclaredTypes(s) = {}
            /\ s.service.healthCheckGracePeriod = (IF flag = None THEN None ELSE Some(10))

\* a service constructed with an application load balancer
C4_Witness ==
    /\ Constructed
    /\ lastOp.props[1].withLoadBalancer = Some("Application")
    /\ IsDefined(services[lastOp.caller[1]].loadBalancer)

NoUpperCase(s) == \A i \in DOMAIN s : \A j \in DOMAIN UpperCase : s[i] # UpperCase[j]

\* C5: whatever the flags, a constructor call that returns has declared
\* one task definition, one log group and one Fargate service before
\* anything else, exactly one container named 'app', which is essential and
\* comes first, and registers the service in Cloud Map under the construct
\* id in lower case.
C5_BaseResources ==
    Constructed =>
        LET s == services[lastOp.caller[1]]
            names == ContainerNames(s)
        IN  /\ SubSeq(s.declared, 1, 3) =
                  <<Declare("FargateTaskDefinition", "TaskDefinition"),
                    Declare("LogGroup", "Logs"),
                    Declare("FargateService", "Svc")>>
            /\ CountDeclared(s, "FargateTaskDefinition") = 1
            /\ CountDeclared(s, "LogGroup") = 1
            /\ CountDeclared(s, "FargateService") = 1
            /\ Cardinality({ i \in DOMAIN names : names[i] = <<"a","p","p">> }) = 1
            /\ names[1] = <<"a","p","p">>
            /\ s.taskDefinition.containers[1].essential = TRUE
            /\ Len(s.service.cloudMapName) = Len(s.id)
            /\ NoUpperCase(s.service.cloudMapName)
            /\ \A i \in DOMAIN s.id :
                  s.id[i] # s.service.cloudMapName[i] =>
                     \E j \in DOMAIN UpperCase :
                        s.id[i] = UpperCase[j] /\ s.service.cloudMapName[i] = LowerCase[j]

\* 'Auth' constructed with every flag set and essential: false, registered
\* as 'auth'
C5_Witness ==
    /\ Constructed
    /\ lastOp.caller[1] = <<"A","u","t","h">>
    /\ lastOp.props[1].containerDefinition.essential = Some(FALSE)
    /\ IsDefined(lastOp.props[1].mesh)
    /\ lastOp.props[1].withLoadBalancer = Some("Network")
    /\ services[lastOp.caller[1]].service.cloudMapName = <<"a","u","t","h">>
    /\ services[lastOp.caller[1]].internalDnsName = <<"a","u","t","h",".","s","b">>

\* C7: a constructor call whose containerDefinition has no port mappings
\* (undefined, or an empty list) throws, no default port is substituted,
\* and the call has declared no construct, registered no rule and left the
\* load balancer and mesh fields unset.
C7_NoPortMappingsThrows ==
    (lastOp.method = "new"
       /\ lastOp.props[1].containerDefinition.portMappings \in {None, Some(<<>>)}) =>
        LET s == services[lastOp.caller[1]]
        IN  /\ lastOp.threw
            /\ s.state = "threw"
            /\ s.declared = <<>>
            /\ DOMAIN s = {"state", "declared"}
            /\ ~ \E r \in sgRules : r.to = ServicePeer(lastOp.caller[1])
            /\ backends[lastOp.caller[1]] = <<>>

\* a constructor call with an empty portMappings list, with both flags set
C7_Witness ==
    /\ lastOp.method = "new"
    /\ lastOp.props[1].containerDefinition.portMappings = Some(<<>>)
    /\ IsDefined(lastOp.props[1].mesh)
    /\ lastOp.props[1].withLoadBalancer = Some("Network")
    /\ lastOp.threw

(***************************************************************************)
(* The ports.                                                              *)
(***************************************************************************)
DigitValue(c) == (CHOOSE i \in DOMAIN DigitChars : DigitChars[i] = c) - 1

RECURSIVE ParseDecimal(_)
\* the number a string of decimal digits denotes
ParseDecimal(str) ==
    IF Len(str) = 0 THEN 0
    ELSE 10 * ParseDecimal(SubSeq(str, 1, Len(str) - 1)) + DigitValue(str[Len(str)])

\* C9: listenerPort is the containerPort of the first port mapping of the
\* 'app' container, and is the proxy's only appPorts entry, the virtual
\* node's HTTP listener port, and the port a.addBackend(b) opens towards b.
\* With a network load balancer the health check uses the containerPort of
\* the last port mapping, for the VPC-CIDR ingress rule and for the target
\* group's health-check port, which equals listenerPort exactly when the
\* first and last mappings have the same containerPort.
C9_PortsConsistent ==
    /\ \A id \in Ids : Built(id) =>
          LET s == services[id]
              mappings == s.taskDefinition.containers[1].portMappings
              first == mappings[1].containerPort
              last == mappings[Len(mappings)].containerPort
              fromVpc == { r \in sgRules : r.from = CidrPeer(VpcCidrBlock) /\ r.to = ServicePeer(id) }
          IN  /\ s.listenerPort = first
              /\ IsDefined(s.taskDefinition.proxyConfiguration) =>
                    s.taskDefinition.proxyConfiguration[1].appPorts = <<first>>
              /\ IsDefined(s.virtualNode) =>
                    s.virtualNode[1].listeners = <<[protocol |-> "http", port |-> first]>>
              /\ IF IsDefined(s.loadBalancer) /\ s.loadBalancer[1].type = "NetworkLoadBalancer"
                 THEN /\ fromVpc = { Rule(CidrPeer(VpcCidrBlock), ServicePeer(id), last) }
                      /\ IsDefined(s.targetGroup[1].healthCheckPort)
                      /\ ParseDecimal(s.targetGroup[1].healthCheckPort[1]) = last
                      /\ \A r \in fromVpc : (r.port = s.listenerPort) <=> (first = last)
                 ELSE fromVpc = {}
    /\ lastOp.method = "addBackend" =>
          LET a == lastOp.caller[1]
              b == lastOp.backend[1].name
              first == services[b].taskDefinition.containers[1].portMappings[1].containerPort
          IN  /\ lastOp.sdk[1].call = "allowTo"
              /\ lastOp.sdk[1].port = first
              /\ Rule(ServicePeer(a), ServicePeer(b), first) \in sgRules

\* a.addBackend(b) where b listens on 9999 and is health-checked on 3000
\* (health-check port "3000"), and a listens on 3000
C9_Witness ==
    /\ lastOp.method = "addBackend"
    /\ LET a == lastOp.caller[1]
           b == lastOp.backend[1].name
       IN  /\ services[a].listenerPort = 3000
           /\ services[b].listenerPort = 9999
           /\ IsDefined(services[b].targetGroup)
           /\ services[b].targetGroup[1].healthCheckPort = Some(<<"3","0","0","0">>)
           /\ Rule(CidrPeer(VpcCidrBlock), ServicePeer(b), 3000) \in sgRules
           /\ Rule(ServicePeer(a), ServicePeer(b), 9999) \in sgRules
           /\ lastOp.sdk[1].port = 9999

====
